---- MODULE Spec2Model ----
(***************************************************************************)
(* InstaGist: the Streamlit session of app.py (two providers and a         *)
(* reconciler), the Gradio front end of text_summarizer.py, the prompt     *)
(* builders and the PDF export.                                            *)
(*                                                                         *)
(* A text is a sequence of tokens.  A token is a word, a blank " ", a line *)
(* break "\n", or one of the fixed phrases the program writes.  The word   *)
(* "Error" is a token of its own, so Python's  "Error" in s  is the test   *)
(* that some token of s is "Error".                                        *)
(***************************************************************************)
EXTENDS Integers, Sequences, FiniteSets, TLC

VARIABLES keyPresent, started, gemini_model, user_input, style,
          finest_summary, summaryOf, run, gradio, pdf, pb

vars == <<keyPresent, started, gemini_model, user_input, style,
          finest_summary, summaryOf, run, gradio, pdf, pb>>

appVars == <<keyPresent, started, gemini_model, user_input, style,
             finest_summary, summaryOf, run>>

(***************************************************************************)
(* Bounds of the model.                                                    *)
(***************************************************************************)
MaxInput == 2
MaxReply == 1
MaxPromptText == 3
MaxPdfLines == 60

(***************************************************************************)
(* Texts.                                                                  *)
(***************************************************************************)
SeqsUpTo(S, n) == UNION {[1..k -> S] : k \in 0..n}

Marker == "Error"

IsSpace(t) == t \in {" ", "\n"}

InText(tok, s) == \E i \in 1..Len(s) : s[i] = tok

RECURSIVE LStrip(_)
LStrip(s) == IF s # <<>> /\ IsSpace(Head(s)) THEN LStrip(Tail(s)) ELSE s

RECURSIVE RStrip(_)
RStrip(s) ==
    IF s # <<>> /\ IsSpace(s[Len(s)]) THEN RStrip(SubSeq(s, 1, Len(s) - 1)) ELSE s

Strip(s) == RStrip(LStrip(s))

Inputs == SeqsUpTo({" ", "w"}, MaxInput)

Replies == SeqsUpTo({" ", "w", Marker}, MaxReply)

Styles == {"bullet", "paragraph"}

(***************************************************************************)
(* Prompt construction.                                                    *)
(***************************************************************************)
BulletPhrase == "Summarize the following text into 3 simple and clear bullet points "

ParaPhrase == "Summarize the following text in a single concise paragraph "

Audience == "suitable for a general audience:\n\n"

GeminiPromptIgnoresStyle(text, st) ==
    <<BulletPhrase>> \o <<Audience>> \o text

GeminiPrompt(text, st) ==
    <<IF st = "bullet" THEN BulletPhrase ELSE ParaPhrase>> \o <<Audience>> \o text

OllamaPrompt(text, st) ==
    <<IF st = "bullet" THEN BulletPhrase ELSE ParaPhrase>> \o <<Audience>> \o text

GradioPrompt(text) ==
    <<"Summarize the following text in 3 simple bullet points for a general audience:\n\n">>
        \o text

RefinePrompt(a, b, st) ==
    <<"Combine and refine the following two summaries into a single, concise, high-quality summary without mentioning their sources:\n\n",
      "Summary 1:\n">> \o a \o <<"\n\nSummary 2:\n">> \o b
        \o <<IF st = "bullet" THEN "\n\nReturn the final summary as 3 bullet points."
                              ELSE "\n\nReturn the final summary as a single paragraph.">>

(***************************************************************************)
(* What a provider can answer.  kind says what happened to the call, text  *)
(* is the generated text, the HTTP body or the exception's message.        *)
(***************************************************************************)
Details == {<<"e">>}

NameErrorText == <<"name 'gemini_model' is not defined">>

GeminiOutcomes ==
    [kind : {"ok"}, text : Replies] \cup [kind : {"exception"}, text : Details]

OllamaOutcomes ==
    [kind : {"ok", "http"}, text : Replies]
        \cup [kind : {"exception", "badjson"}, text : Details]
        \cup [kind : {"nokey"}, text : {<<>>}]

\* the answers Provider A can give: none is consulted when the model name is unbound
GeminiAnswers(model) ==
    IF model THEN GeminiOutcomes ELSE {[kind |-> "exception", text |-> NameErrorText]}

\* the answers to the reconciliation call, when combine_summaries reaches it
MergeAnswers(a, b, model) ==
    IF InText(Marker, a) \/ InText(Marker, b)
    THEN {[kind |-> "none", text |-> <<>>]}
    ELSE GeminiAnswers(model)

\* gemini_model.generate_content: the name is unbound when no key was configured
GenerateContent(model, o) ==
    IF model THEN o ELSE [kind |-> "exception", text |-> NameErrorText]

NoCall == [called |-> FALSE, prompt |-> <<>>, kind |-> "none", raised |-> FALSE,
           result |-> <<>>]

summarize_with_gemini(text, st, model, o) ==
    LET r == GenerateContent(model, o) IN
    [called |-> TRUE, prompt |-> GeminiPrompt(text, st), kind |-> r.kind,
     raised |-> FALSE,
     result |-> IF r.kind = "ok" THEN Strip(r.text)
                ELSE <<"[x] Gemini ", Marker, ": ">> \o r.text]

summarize_with_ollama(text, st, o) ==
    [called |-> TRUE, prompt |-> OllamaPrompt(text, st), kind |-> o.kind,
     raised |-> FALSE,
     result |-> CASE o.kind = "ok" -> Strip(o.text)
                  [] o.kind = "nokey" -> Strip(<<"No summary generated.">>)
                  [] o.kind = "http" -> <<"[x] Ollama ", Marker, ": ">> \o o.text
                  [] OTHER -> <<"[x] Ollama Connection ", Marker, ": ">> \o o.text]

\* text_summarizer.py: no try/except around the request or the JSON decoding
summarize_text(text, o) ==
    [called |-> TRUE, prompt |-> GradioPrompt(text), kind |-> o.kind,
     raised |-> o.kind \in {"exception", "badjson"},
     result |-> CASE o.kind = "ok" -> o.text
                  [] o.kind = "nokey" -> <<"No summary generated.">>
                  [] o.kind = "http" -> <<Marker, ": ">> \o o.text
                  [] OTHER -> <<>>]

NoCombine == [called |-> FALSE, calls |-> 0, prompt |-> <<>>, kind |-> "none",
              reply |-> <<>>, out |-> <<>>]

\* the two marker tests in the other order
combine_summaries_swapped(gemini_summary, ollama_summary, st, model, o) ==
    IF InText(Marker, ollama_summary)
    THEN [called |-> TRUE, calls |-> 0, prompt |-> <<>>, kind |-> "none",
          reply |-> <<>>, out |-> gemini_summary]
    ELSE IF InText(Marker, gemini_summary)
    THEN [called |-> TRUE, calls |-> 0, prompt |-> <<>>, kind |-> "none",
          reply |-> <<>>, out |-> ollama_summary]
    ELSE LET r == GenerateContent(model, o) IN
         [called |-> TRUE, calls |-> 1,
          prompt |-> RefinePrompt(gemini_summary, ollama_summary, st),
          kind |-> r.kind, reply |-> r.text,
          out |-> IF r.kind = "ok" THEN Strip(r.text)
                  ELSE gemini_summary \o <<"\n", "\n">> \o ollama_summary]

combine_summaries(gemini_summary, ollama_summary, st, model, o) ==
    IF InText(Marker, gemini_summary)
    THEN [called |-> TRUE, calls |-> 0, prompt |-> <<>>, kind |-> "none",
          reply |-> <<>>, out |-> ollama_summary]
    ELSE IF InText(Marker, ollama_summary)
    THEN [called |-> TRUE, calls |-> 0, prompt |-> <<>>, kind |-> "none",
          reply |-> <<>>, out |-> gemini_summary]
    ELSE LET r == GenerateContent(model, o) IN
         [called |-> TRUE, calls |-> 1,
          prompt |-> RefinePrompt(gemini_summary, ollama_summary, st),
          kind |-> r.kind, reply |-> r.text,
          out |-> IF r.kind = "ok" THEN Strip(r.text)
                  ELSE gemini_summary \o <<"\n", "\n">> \o ollama_summary]

(***************************************************************************)
(* PDF export.  Lengths are in tenths of a point.                          *)
(***************************************************************************)
StartY == 750

\* reportlab default leading of a text object: 1.2 x the 12 pt default font
Leading == 144

RECURSIVE SplitLines(_)
SplitLines(s) ==
    IF \A i \in 1..Len(s) : s[i] # "\n" THEN <<s>>
    ELSE LET k == CHOOSE i \in 1..Len(s) :
                      s[i] = "\n" /\ \A j \in 1..(i - 1) : s[j] # "\n"
         IN <<SubSeq(s, 1, k - 1)>> \o SplitLines(SubSeq(s, k + 1, Len(s)))

create_pdf_file(summary_text) ==
    LET lines == SplitLines(summary_text) IN
    [made |-> TRUE, lines |-> Len(lines), pages |-> 1,
     cursor |-> StartY * 10 - Len(lines) * Leading]

NoPdf == [made |-> FALSE, lines |-> 0, pages |-> 0, cursor |-> 0]

(***************************************************************************)
(* The Streamlit session of app.py.  Every interaction reruns the whole    *)
(* script; run is what that rerun did.                                     *)
(***************************************************************************)
NoRun == [request |-> FALSE, rendered |-> "nothing", shownOf |-> <<>>,
          generated |-> FALSE, gem |-> NoCall, oll |-> NoCall, comb |-> NoCombine,
          pages |-> 0, regenShown |-> FALSE]

NoGradio == [text |-> <<>>, submitted |-> FALSE, of |-> <<>>, call |-> NoCall]

NoExport == [text |-> <<>>, doc |-> NoPdf]

NoPrompt == [text |-> <<>>, style |-> "bullet", built |-> FALSE,
             gemini |-> <<>>, ollama |-> <<>>]

AppInit ==
    /\ keyPresent \in BOOLEAN
    /\ started = FALSE
    /\ gemini_model = FALSE
    /\ user_input = <<>>
    /\ style = "bullet"
    /\ finest_summary = <<>>
    /\ summaryOf = <<>>
    /\ run = NoRun

Init == AppInit /\ gradio = NoGradio /\ pdf = NoExport /\ pb = NoPrompt

\* first execution of the script: configuration and default widget values
Startup ==
    /\ ~started
    /\ started' = TRUE
    /\ gemini_model' = keyPresent
    /\ user_input' = <<>>
    /\ style' = "bullet"
    /\ finest_summary' = <<>>
    /\ summaryOf' = <<>>
    /\ run' = NoRun
    /\ UNCHANGED <<keyPresent, gradio, pdf, pb>>

\* one rerun of the script with the widget values of this interaction
Script(text, st, summarizePressed, regeneratePressed) ==
    /\ started
    /\ user_input' = text
    /\ style' = st
    /\ UNCHANGED <<keyPresent, started, gemini_model, gradio, pdf, pb>>
    /\ IF ~(summarizePressed \/ finest_summary # <<>>)
       THEN /\ run' = NoRun
            /\ UNCHANGED <<finest_summary, summaryOf>>
       ELSE IF Strip(text) = <<>>
       THEN /\ run' = [NoRun EXCEPT !.request = summarizePressed,
                                    !.rendered = "warning"]
            /\ UNCHANGED <<finest_summary, summaryOf>>
       ELSE IF finest_summary = <<>>
       THEN \E oa \in GeminiAnswers(gemini_model), ob \in OllamaOutcomes :
              LET g == summarize_with_gemini(text, st, gemini_model, oa)
                  l == summarize_with_ollama(text, st, ob)
              IN \E oc \in MergeAnswers(g.result, l.result, gemini_model) :
                   LET c == combine_summaries(g.result, l.result, st, gemini_model, oc)
                       kept == IF regeneratePressed THEN <<>> ELSE c.out
                   IN /\ finest_summary' = kept
                      /\ summaryOf' = IF kept = <<>> THEN <<>> ELSE text
                      /\ run' = [request |-> summarizePressed,
                                 rendered |-> "summary", shownOf |-> text,
                                 generated |-> TRUE, gem |-> g, oll |-> l, comb |-> c,
                                 pages |-> create_pdf_file(c.out).pages,
                                 regenShown |-> TRUE]
       ELSE /\ finest_summary' = IF regeneratePressed THEN <<>> ELSE finest_summary
            /\ summaryOf' = IF regeneratePressed THEN <<>> ELSE summaryOf
            /\ run' = [NoRun EXCEPT !.request = summarizePressed,
                                    !.rendered = "summary",
                                    !.shownOf = summaryOf,
                                    !.pages = create_pdf_file(finest_summary).pages,
                                    !.regenShown = TRUE]

EditText == \E t \in Inputs \ {user_input} : Script(t, style, FALSE, FALSE)

ChooseStyle == \E s \in Styles \ {style} : Script(user_input, s, FALSE, FALSE)

PressSummarize == started /\ Script(user_input, style, TRUE, FALSE)

PressRegenerate == run.regenShown /\ Script(user_input, style, FALSE, TRUE)

PressDownload == run.rendered = "summary" /\ Script(user_input, style, FALSE, FALSE)

Next ==
    \/ Startup
    \/ EditText
    \/ ChooseStyle
    \/ PressSummarize
    \/ PressRegenerate
    \/ PressDownload

Spec == Init /\ [][Next]_vars

(***************************************************************************)
(* The Gradio front end of text_summarizer.py.                             *)
(***************************************************************************)
GradioEdit ==
    /\ \E t \in Inputs \ {gradio.text} : gradio' = [gradio EXCEPT !.text = t]
    /\ UNCHANGED <<appVars, pdf, pb>>

GradioSubmit ==
    /\ \E o \in OllamaOutcomes :
          gradio' = [text |-> gradio.text, submitted |-> TRUE, of |-> gradio.text,
                     call |-> summarize_text(gradio.text, o)]
    /\ UNCHANGED <<appVars, pdf, pb>>

NextGradio == GradioEdit \/ GradioSubmit

SpecGradio == Init /\ [][NextGradio]_vars

(***************************************************************************)
(* create_pdf_file on summaries of one to MaxPdfLines lines.               *)
(***************************************************************************)
RECURSIVE LinesText(_)
LinesText(n) == IF n <= 1 THEN <<"w">> ELSE LinesText(n - 1) \o <<"\n", "w">>

InitPdf ==
    /\ AppInit /\ gradio = NoGradio /\ pb = NoPrompt
    /\ \E n \in 1..MaxPdfLines : pdf = [text |-> LinesText(n), doc |-> NoPdf]

CreatePdf ==
    /\ ~pdf.doc.made
    /\ pdf' = [pdf EXCEPT !.doc = create_pdf_file(pdf.text)]
    /\ UNCHANGED <<appVars, gradio, pb>>

NextPdf == CreatePdf

SpecPdf == InitPdf /\ [][NextPdf]_vars

(***************************************************************************)
(* The prompt builders on arbitrary texts, which may quote the program's   *)
(* own instruction phrases.                                                *)
(***************************************************************************)
PromptTexts == SeqsUpTo({"w", " ", BulletPhrase, ParaPhrase}, MaxPromptText)

PromptStyles == {"bullet", "paragraph", "tldr"}

InitPrompt ==
    /\ AppInit /\ gradio = NoGradio /\ pdf = NoExport
    /\ \E t \in PromptTexts, s \in PromptStyles :
          pb = [NoPrompt EXCEPT !.text = t, !.style = s]

BuildPrompts ==
    /\ ~pb.built
    /\ pb' = [pb EXCEPT !.built = TRUE,
                        !.gemini = GeminiPrompt(pb.text, pb.style),
                        !.ollama = OllamaPrompt(pb.text, pb.style)]
    /\ UNCHANGED <<appVars, gradio, pdf>>

NextPrompt == BuildPrompts

SpecPrompt == InitPrompt /\ [][NextPrompt]_vars

(***************************************************************************)
(* Properties.                                                             *)
(***************************************************************************)
\* the provider call did not produce a summary
Failed(call) == call.kind \in {"exception", "http", "badjson"}

Embeds(p, s) == \E i \in 1..(Len(p) - Len(s) + 1) : SubSeq(p, i, i + Len(s) - 1) = s

HasSuffix(p, s) == Len(p) >= Len(s) /\ SubSeq(p, Len(p) - Len(s) + 1, Len(p)) = s

Blank(s) == Strip(s) = <<>>

ReturnsText(call) ==
    call.called => ~call.raised /\ (Failed(call) => InText(Marker, call.result))

\* C1: every provider-call function (summarize_with_gemini, summarize_with_ollama,
\* summarize_text) returns a string whatever the underlying call does and never
\* raises, and on every failure the string carries the marker "Error".
C1_ProviderCallsNeverRaise ==
    ReturnsText(run.gem) /\ ReturnsText(run.oll) /\ ReturnsText(gradio.call)

\* C2: when exactly one provider call failed, combine_summaries returns the other
\* provider's result unchanged and issues no reconciliation call.
C2_OneFailedReturnsOther ==
    run.generated =>
        /\ Failed(run.gem) /\ ~Failed(run.oll) =>
               run.comb.out = run.oll.result /\ run.comb.calls = 0
        /\ Failed(run.oll) /\ ~Failed(run.gem) =>
               run.comb.out = run.gem.result /\ run.comb.calls = 0

\* C3: when both provider calls succeeded, whatever words their texts contain,
\* exactly one reconciliation call is issued with a prompt embedding both texts;
\* the output is that call's result if it succeeds and a + "\n\n" + b if it fails.
C3_BothSucceededReconciles ==
    run.generated /\ ~Failed(run.gem) /\ ~Failed(run.oll) =>
        /\ run.comb.calls = 1
        /\ Embeds(run.comb.prompt, run.gem.result)
        /\ Embeds(run.comb.prompt, run.oll.result)
        /\ run.comb.kind = "ok" => run.comb.out = Strip(run.comb.reply)
        /\ run.comb.kind # "ok" =>
               run.comb.out = run.gem.result \o <<"\n", "\n">> \o run.oll.result

\* C4: in both front ends a summarization request whose input is empty or
\* whitespace-only issues no provider call, and yields a warning instead of a summary.
C4_BlankInputNeverCalls ==
    /\ run.request /\ Blank(user_input) =>
           /\ ~run.gem.called /\ ~run.oll.called /\ run.comb.calls = 0
           /\ run.rendered = "warning"
    /\ gradio.submitted /\ Blank(gradio.of) => ~gradio.call.called

\* C5: a stored summary was generated from the text now in the text area (the
\* session value is cleared when the input changes and on Regenerate), so the
\* summary of an earlier input is never shown for a different input.
C5_SummaryIsOfCurrentInput ==
    /\ finest_summary # <<>> => summaryOf = user_input
    /\ run.rendered = "summary" => run.shownOf = user_input

\* C6: every interaction that summarizes, whatever the providers answer, ends with
\* a non-empty stored summary.
C6_SummarizingEndsReady == run.generated => finest_summary # <<>>

\* C7: with the Provider A credential absent the program halts at startup and
\* never reaches the idle state.
C7_MissingKeyIsFatal == ~keyPresent => ~started

\* the baseline of the last line is still on the page
FitsOnePage(doc) == doc.cursor + Leading >= 0

\* C8: create_pdf_file paginates: a summary with more lines than fit on one page
\* gives a document of more than one page, one with few lines exactly one page.
C8_PdfPaginates ==
    pdf.doc.made =>
        /\ FitsOnePage(pdf.doc) => pdf.doc.pages = 1
        /\ ~FitsOnePage(pdf.doc) => pdf.doc.pages > 1

\* C9 as stated: for every non-empty text and every style the prompt ends with the
\* text, contains exactly one of the two instruction phrasings (the bullet one iff
\* style = "bullet"), never both, and both providers get the same prompt.
C9_ExactlyOnePhrasingAnywhere ==
    pb.built /\ pb.text # <<>> =>
        /\ pb.gemini = pb.ollama
        /\ \A p \in {pb.gemini, pb.ollama} :
              /\ HasSuffix(p, pb.text)
              /\ InText(BulletPhrase, p) # InText(ParaPhrase, p)
              /\ InText(BulletPhrase, p) <=> pb.style = "bullet"

\* the part of a prompt that precedes the input text
Instruction(p, text) == SubSeq(p, 1, Len(p) - Len(text))

\* C9 as amended: for every non-empty text and every style the prompt ends with the
\* text verbatim, the part of the prompt before the text contains exactly one of
\* the two instruction phrasings (the bullet one iff style = "bullet", otherwise
\* the paragraph one), never both, and both providers get the same prompt.
C9_ExactlyOnePhrasingBeforeText ==
    pb.built /\ pb.text # <<>> =>
        /\ pb.gemini = pb.ollama
        /\ \A p \in {pb.gemini, pb.ollama} :
              /\ HasSuffix(p, pb.text)
              /\ InText(BulletPhrase, Instruction(p, pb.text))
                     # InText(ParaPhrase, Instruction(p, pb.text))
              /\ InText(BulletPhrase, Instruction(p, pb.text)) <=> pb.style = "bullet"

\* prompts were built for a non-bullet style from a text quoting the bullet phrasing
C9_Witness ==
    /\ pb.built /\ pb.style = "tldr"
    /\ InText(BulletPhrase, pb.text) /\ InText("w", pb.text)
    /\ InText(ParaPhrase, Instruction(pb.gemini, pb.text))

\* C10 as stated: combine_summaries merges in every case other than 'exactly one
\* input is a failure marker'; with both inputs failure markers it still builds the
\* merge prompt embedding both and calls Provider A, falling back to the
\* concatenation if that call fails.
C10_MergesUnlessExactlyOneMarker ==
    run.generated
      /\ (InText(Marker, run.gem.result) <=> InText(Marker, run.oll.result)) =>
        /\ run.comb.calls = 1
        /\ Embeds(run.comb.prompt, run.gem.result)
        /\ Embeds(run.comb.prompt, run.oll.result)
        /\ run.comb.kind # "ok" =>
               run.comb.out = run.gem.result \o <<"\n", "\n">> \o run.oll.result

\* C10 as amended: combine_summaries merges exactly when neither input contains the
\* marker "Error"; when the first input contains it (both inputs failure markers
\* included) the second input is returned unchanged and Provider A is not called,
\* and when only the second contains it the first is returned likewise.
C10_MergesOnlyWithoutMarker ==
    run.generated =>
        LET ma == InText(Marker, run.gem.result)
            mb == InText(Marker, run.oll.result)
        IN /\ ma => run.comb.calls = 0 /\ run.comb.out = run.oll.result
           /\ ~ma /\ mb => run.comb.calls = 0 /\ run.comb.out = run.gem.result
           /\ ~ma /\ ~mb =>
                  /\ run.comb.calls = 1
                  /\ Embeds(run.comb.prompt, run.gem.result)
                  /\ Embeds(run.comb.prompt, run.oll.result)
                  /\ run.comb.kind # "ok" =>
                         run.comb.out
                             = run.gem.result \o <<"\n", "\n">> \o run.oll.result

\* both provider calls failed and the session shows Provider B's failure text
C10_Witness ==
    /\ run.generated /\ Failed(run.gem) /\ Failed(run.oll)
    /\ InText(Marker, run.gem.result) /\ InText(Marker, run.oll.result)
    /\ run.comb.calls = 0 /\ finest_summary = run.oll.result

====
